---- MODULE Spec2Model ----
(***************************************************************************)
(* Schema inference and statistics inference of the Parquet file format    *)
(* (datafusion/core/src/datasource/file_format/parquet.rs).                *)
(*                                                                         *)
(* Three operations are modelled, each under its own specification:          *)
(*   Spec        one call of fetch_statistics(reader, table_schema)        *)
(*   SpecFaults  the same call when accumulator updates may fail           *)
(*   SpecSchema  one call of ParquetFormat::infer_schema(readers)          *)
(*   SpecReader  the calls of get_read on one ChunkObjectReader            *)
(*                                                                         *)
(* Conventions.  A Rust Option is a sequence of length at most one:        *)
(* <<>> is None and <<x>> is Some(x).  Rust indexes from 0, the sequences  *)
(* here from 1.  Scalar values are small integers; a boolean statistic is  *)
(* 0 (false) or 1 (true), so that false < true.                            *)
(***************************************************************************)
EXTENDS Integers, Sequences, FiniteSets, TLC

(***************************************************************************)
(* Bounds of the model.                                                    *)
(***************************************************************************)
\* the largest number of row groups in a file
MaxRowGroups == 2
\* the largest number of files in the stream given to infer_schema
MaxFiles == 3
\* the largest number of get_read calls on one ChunkObjectReader
MaxReads == 3

(***************************************************************************)
(* Option and small helpers.                                               *)
(***************************************************************************)
None == <<>>

Some(x) == <<x>>

IsSome(o) == Len(o) = 1

Unwrap(o) == o[1]

(***************************************************************************)
(* Input domains of fetch_statistics.                                      *)
(***************************************************************************)
\* a table field: its name and its declared arrow DataType
Field(n, t) == [name |-> n, data_type |-> t]

\* a column of a file: its name and the ParquetStatistics variant in which
\* the statistics of its column chunks are encoded
Column(n, k) == [name |-> n, kind |-> k]

\* The (table schema, file schema) pairs a call is made with: the same
\* schema, an encoding summarize_min_max ignores, a column absent from the
\* file, reordered columns, a declared type differing from the encoded one,
\* a column the table does not use, both of the last two at once, and the
\* remaining encoded types.
Schemas ==
    { <<  <<Field("a", "Int32")>>,
          <<Column("a", "Int32")>> >>,
      <<  <<Field("a", "Utf8"), Field("b", "Int64")>>,
          <<Column("a", "ByteArray")>> >>,
      <<  <<Field("a", "Utf8"), Field("b", "Int64")>>,
          <<Column("b", "Int64")>> >>,
      <<  <<Field("a", "Int32"), Field("b", "Int64")>>,
          <<Column("b", "Int64"), Column("a", "Int32")>> >>,
      <<  <<Field("a", "Int64")>>,
          <<Column("a", "Int32")>> >>,
      <<  <<Field("b", "Boolean")>>,
          <<Column("a", "Int32"), Column("b", "Boolean")>> >>,
      <<  <<Field("c", "Int64"), Field("a", "Int32")>>,
          <<Column("a", "Int32"), Column("b", "ByteArray")>> >>,
      <<  <<Field("a", "Float32")>>,
          <<Column("a", "Float")>> >>,
      <<  <<Field("a", "Float64")>>,
          <<Column("a", "Double")>> >> }

\* (null count, min, max) triples a column chunk with min/max set may report
Reported(kind) ==
    IF kind = "Boolean" THEN {<<0, 0, 0>>, <<1, 0, 1>>}
                        ELSE {<<0, 0, 1>>, <<1, 2, 3>>}

\* ColumnChunkMetaData::statistics(): None, or statistics that carry a null
\* count and, when has_min_max_set, a minimum and a maximum
Stat(kind, nulls, set, lo, hi) ==
    [kind |-> kind, null_count |-> nulls, has_min_max_set |-> set,
     min |-> lo, max |-> hi]

ChunkStatistics(kind) ==
    {None, Some(Stat(kind, 1, FALSE, 0, 0))}
    \cup {Some(Stat(kind, r[1], TRUE, r[2], r[3])) : r \in Reported(kind)}

\* (num_rows, total_byte_size) of a row group
RowGroupSizes == {<<2, 7>>, <<3, 5>>}

\* RowGroupMetaData: its row count, its byte size and one column chunk per
\* column of the file
RowGroups(file_schema) ==
    { [num_rows |-> sz[1], total_byte_size |-> sz[2], columns |-> cols] :
        sz \in RowGroupSizes,
        cols \in { c \in [1..Len(file_schema) -> UNION {ChunkStatistics(file_schema[i].kind)
                                                        : i \in 1..Len(file_schema)}] :
                     \A i \in 1..Len(file_schema) :
                        c[i] \in ChunkStatistics(file_schema[i].kind) } }

\* the accumulator updates that fail in one row group: those of one table
\* field, its max, its min or both
Faults(n) ==
    { {<<t, w>> : w \in ws} : t \in 1..n, ws \in (SUBSET {"max", "min"}) \ {{}} }

(***************************************************************************)
(* Input domains of infer_schema.                                          *)
(***************************************************************************)
\* a field of a file's arrow schema
SchemaField(n, t, nullable) == [name |-> n, data_type |-> t, nullable |-> nullable]

\* the schemas the files of the stream may have
FileSchemas ==
    { <<SchemaField("A", "Int32", FALSE), SchemaField("B", "Utf8", FALSE)>>,
      <<SchemaField("B", "Utf8", FALSE), SchemaField("C", "Int64", FALSE)>>,
      <<SchemaField("C", "Int64", TRUE), SchemaField("A", "Int32", FALSE)>>,
      <<SchemaField("A", "Int32", TRUE)>>,
      <<SchemaField("B", "Int64", FALSE)>> }

\* an item of the ObjectReaderStream: an error of the stream, or a reader
\* of a file whose footer decodes to a schema or does not decode
StreamError == [item |-> "error", footer |-> "none", schema |-> <<>>]

Reader(footer_state, schema) ==
    [item |-> "reader", footer |-> footer_state, schema |-> schema]

StreamItems ==
    {StreamError, Reader("corrupt", <<>>)} \cup {Reader("ok", sc) : sc \in FileSchemas}

(***************************************************************************)
(* Input domains of ChunkObjectReader::get_read.                           *)
(***************************************************************************)
\* the start offsets and the lengths get_read is called with
Offsets == {0, 8}

Lengths == {0, 4, 8}

\* what object_reader.sync_chunk_reader returns
ReadOutcomes == {"ok", "error"}

(***************************************************************************)
(* State.                                                                  *)
(***************************************************************************)
VARIABLES
    \* fetch_statistics: its arguments and the file behind the reader
    table_schema,     \* the table_schema argument
    footer,           \* "ok", or "corrupt" when the reader cannot decode the file
    file_schema,      \* arrow_reader.get_schema()
    row_groups,       \* arrow_reader.get_metadata().row_groups()
    \* fetch_statistics: its position and its locals
    pc,               \* "start", "loop" or "done"
    rg,               \* the number of row groups the loop has processed
    num_rows,
    total_byte_size,
    null_counts,
    has_statistics,
    max_values,
    min_values,
    result,           \* None while running, then Some(Result<Statistics>)
    \* infer_schema: its argument, its position and the fold's accumulator
    readers,          \* the ObjectReaderStream, one item per file
    s_pc,             \* "fold" or "done"
    s_next,           \* the number of stream items consumed
    acc,              \* the schema merged so far
    decoded,          \* the items fetch_schema was called on, in call order
    s_result,         \* None while running, then Some(Result<SchemaRef>)
    \* ChunkObjectReader: its counter, the calls made and the last return
    bytes_scanned,    \* None, or Some(value of the metrics::Count)
    reads,            \* the get_read calls so far: start, length, outcome
    read_result       \* None before the first call, then Some(ParquetResult)

stat_vars == <<table_schema, footer, file_schema, row_groups, pc, rg, num_rows,
               total_byte_size, null_counts, has_statistics, max_values,
               min_values, result>>

schema_vars == <<readers, s_pc, s_next, acc, decoded, s_result>>

reader_vars == <<bytes_scanned, reads, read_result>>

vars == <<stat_vars, schema_vars, reader_vars>>

(***************************************************************************)
(* Collaborators of fetch_statistics that live outside parquet.rs.         *)
(***************************************************************************)
\* SchemaAdapter::map_column_index: the position in the file's schema of the
\* field named like table field t, or None when the file has no such field
map_column_index(tschema, t, fschema) ==
    LET hits == {f \in 1..Len(fschema) : fschema[f].name = tschema[t].name}
    IN  IF hits = {} THEN None
        ELSE Some(CHOOSE f \in hits : \A g \in hits : f <= g)

\* MaxAccumulator / MinAccumulator: the running extreme, None until the
\* first value arrives
NewAccumulator == None

max_update_batch(a, v) == IF IsSome(a) /\ Unwrap(a) >= v THEN a ELSE Some(v)

min_update_batch(a, v) == IF IsSome(a) /\ Unwrap(a) <= v THEN a ELSE Some(v)

\* create_max_min_accs: one max and one min accumulator per table field
create_max_min_accs(tschema) ==
    [max_values |-> [t \in 1..Len(tschema) |-> Some(NewAccumulator)],
     min_values |-> [t \in 1..Len(tschema) |-> Some(NewAccumulator)]]

\* get_col_stats: one ColumnStatistics per table field, from the null count
\* and the accumulators at the same index; a disabled accumulator and one
\* that was never fed both give no value
get_col_stats(tschema, nulls, maxv, minv) ==
    [t \in 1..Len(tschema) |->
        [null_count     |-> Some(nulls[t]),
         max_value      |-> IF IsSome(maxv[t]) THEN Unwrap(maxv[t]) ELSE None,
         min_value      |-> IF IsSome(minv[t]) THEN Unwrap(minv[t]) ELSE None,
         distinct_count |-> None]]

(***************************************************************************)
(* summarize_min_max.                                                      *)
(***************************************************************************)
\* the arrow DataType each ParquetStatistics variant is accumulated into;
\* every other variant is ignored
TypeOfStatistics ==
    [Boolean |-> "Boolean", Int32 |-> "Int32", Int64 |-> "Int64",
     Float |-> "Float32", Double |-> "Float64"]

\* StatisticsMatch without the if-let on fields[i].data_type()
StatisticsMatch_AnyType(fields, i, stat) == stat.kind \in DOMAIN TypeOfStatistics

\* the outer match and the if-let on fields[i].data_type()
StatisticsMatch(fields, i, stat) ==
    /\ stat.kind \in DOMAIN TypeOfStatistics
    /\ fields[i].data_type = TypeOfStatistics[stat.kind]

\* AccumulateMax that creates a new accumulator in an empty slot
AccumulateMax_Recreate(slot, v, fails) ==
    IF ~IsSome(slot) THEN Some(Some(v))
    ELSE IF fails THEN None
    ELSE Some(max_update_batch(Unwrap(slot), v))

\* the max accumulator of column i after the statistics of one column
\* chunk: fed the value, or set to None when the update fails
AccumulateMax(slot, v, fails) ==
    IF ~IsSome(slot) THEN slot
    ELSE IF fails THEN None
    ELSE Some(max_update_batch(Unwrap(slot), v))

\* AccumulateMin that starts over after a failed update
AccumulateMin_StartOver(slot, v, fails) ==
    IF ~IsSome(slot) THEN slot
    ELSE IF fails THEN Some(NewAccumulator)
    ELSE Some(min_update_batch(Unwrap(slot), v))

\* the same for the min accumulator
AccumulateMin(slot, v, fails) ==
    IF ~IsSome(slot) THEN slot
    ELSE IF fails THEN None
    ELSE Some(min_update_batch(Unwrap(slot), v))

\* summarize_min_max with s.min() fed to the max accumulator and s.max()
\* to the min accumulator
summarize_min_max_Swapped(maxv, minv, fields, i, stat, fault) ==
    IF StatisticsMatch(fields, i, stat) /\ stat.has_min_max_set
    THEN [max_values |-> [maxv EXCEPT ![i] =
                AccumulateMax(maxv[i], stat.min, <<i, "max">> \in fault)],
          min_values |-> [minv EXCEPT ![i] =
                AccumulateMin(minv[i], stat.max, <<i, "min">> \in fault)]]
    ELSE [max_values |-> maxv, min_values |-> minv]

summarize_min_max(maxv, minv, fields, i, stat, fault) ==
    IF StatisticsMatch(fields, i, stat) /\ stat.has_min_max_set
    THEN [max_values |-> [maxv EXCEPT ![i] =
                AccumulateMax(maxv[i], stat.max, <<i, "max">> \in fault)],
          min_values |-> [minv EXCEPT ![i] =
                AccumulateMin(minv[i], stat.min, <<i, "min">> \in fault)]]
    ELSE [max_values |-> maxv, min_values |-> minv]


(***************************************************************************)
(* fetch_statistics.                                                       *)
(***************************************************************************)
\* let num_fields = table_schema.fields().len()
NumFields(tschema) == Len(tschema)

\* the per-row-group HashMap column_stats: for each column chunk that has
\* statistics, its position maps to (null count, statistics)
ColumnStats(row_group) ==
    [i \in {j \in 1..Len(row_group.columns) : IsSome(row_group.columns[j])} |->
        <<Unwrap(row_group.columns[i]).null_count, Unwrap(row_group.columns[i])>>]

\* HasStatistics with the flag reset for every row group
HasStatistics_PerRowGroup(before, row_group) ==
    \E i \in 1..Len(row_group.columns) : IsSome(row_group.columns[i])

\* has_statistics after the scan of the column chunks of one row group
HasStatistics(before, row_group) ==
    before \/ \E i \in 1..Len(row_group.columns) : IsSome(row_group.columns[i])

\* num_rows += row_group_meta.num_rows()
NumRows(rows, row_group) == rows + row_group.num_rows

\* TotalByteSize with = for +=
TotalByteSize_Assign(bytes, row_group) == row_group.total_byte_size

\* total_byte_size += row_group_meta.total_byte_size()
TotalByteSize(bytes, row_group) == bytes + row_group.total_byte_size

\* NullCount with the statistics looked up at the table's position t
NullCount_TablePosition(null_cnt, tschema, t, fschema, column_stats, rows) ==
    LET file_idx == map_column_index(tschema, t, fschema)
    IN  IF IsSome(file_idx)
        THEN IF t \in DOMAIN column_stats
             THEN null_cnt + column_stats[t][1]
             ELSE null_cnt
        ELSE null_cnt + rows

\* null_counts[t] after one row group processed while has_statistics holds;
\* rows is the local num_rows at that point
NullCount(null_cnt, tschema, t, fschema, column_stats, rows) ==
    LET file_idx == map_column_index(tschema, t, fschema)
    IN  IF IsSome(file_idx)
        THEN IF Unwrap(file_idx) \in DOMAIN column_stats
             THEN null_cnt + column_stats[Unwrap(file_idx)][1]
             ELSE null_cnt
        ELSE null_cnt + rows

\* the accumulators after table field t of one row group
MinMax(maxv, minv, tschema, t, fschema, column_stats, fault) ==
    LET file_idx == map_column_index(tschema, t, fschema)
    IN  IF IsSome(file_idx) /\ Unwrap(file_idx) \in DOMAIN column_stats
        THEN summarize_min_max(maxv, minv, tschema, t,
                               column_stats[Unwrap(file_idx)][2], fault)
        ELSE [max_values |-> maxv, min_values |-> minv]

\* the accumulators after table fields 1..t of one row group
RECURSIVE MinMaxUpTo(_, _, _, _, _, _, _)
MinMaxUpTo(maxv, minv, tschema, t, fschema, column_stats, fault) ==
    IF t = 0 THEN [max_values |-> maxv, min_values |-> minv]
    ELSE LET prev == MinMaxUpTo(maxv, minv, tschema, t - 1, fschema, column_stats, fault)
         IN  MinMax(prev.max_values, prev.min_values, tschema, t, fschema,
                    column_stats, fault)

\* ColumnStatistics with entry t taken from the physical position of field
\* t in the file instead of from t
ColumnStatistics_FilePosition(has, tschema, nulls, maxv, minv) ==
    IF has
    THEN LET all == get_col_stats(tschema, nulls, maxv, minv)
             pos(t) == LET file_idx == map_column_index(tschema, t, file_schema)
                       IN  IF IsSome(file_idx) /\ Unwrap(file_idx) <= Len(tschema)
                           THEN Unwrap(file_idx) ELSE t
         IN  Some([t \in 1..Len(tschema) |-> all[pos(t)]])
    ELSE None

\* the column_statistics of the result
ColumnStatistics(has, tschema, nulls, maxv, minv) ==
    IF has THEN Some(get_col_stats(tschema, nulls, maxv, minv)) ELSE None

\* the Statistics value the call returns
Statistics(rows, bytes, column_stats) ==
    [num_rows |-> Some(rows), total_byte_size |-> Some(bytes),
     column_statistics |-> column_stats, is_exact |-> TRUE]

Ok(v) == [ok |-> TRUE, value |-> Some(v), error |-> None]

Err(e) == [ok |-> FALSE, value |-> None, error |-> Some(e)]

\* OpenFails with the decode error swallowed: empty statistics are returned
OpenFails_Swallowed ==
    /\ pc = "start"
    /\ footer = "corrupt"
    /\ pc' = "done"
    /\ result' = Some(Ok(Statistics(0, 0, None)))
    /\ UNCHANGED <<table_schema, footer, file_schema, row_groups, rg, num_rows,
                   total_byte_size, null_counts, has_statistics, max_values,
                   min_values>>
    /\ UNCHANGED <<schema_vars, reader_vars>>

\* SerializedFileReader::new and get_schema fail: the error is returned
OpenFails ==
    /\ pc = "start"
    /\ footer = "corrupt"
    /\ pc' = "done"
    /\ result' = Some(Err("ParquetError"))
    /\ UNCHANGED <<table_schema, footer, file_schema, row_groups, rg, num_rows,
                   total_byte_size, null_counts, has_statistics, max_values,
                   min_values>>
    /\ UNCHANGED <<schema_vars, reader_vars>>

\* the file is decoded and the locals are initialised
Open ==
    /\ pc = "start"
    /\ footer = "ok"
    /\ pc' = "loop"
    /\ rg' = 0
    /\ num_rows' = 0
    /\ total_byte_size' = 0
    /\ null_counts' = [t \in 1..NumFields(table_schema) |-> 0]
    /\ has_statistics' = FALSE
    /\ max_values' = create_max_min_accs(table_schema).max_values
    /\ min_values' = create_max_min_accs(table_schema).min_values
    /\ UNCHANGED <<table_schema, footer, file_schema, row_groups, result>>
    /\ UNCHANGED <<schema_vars, reader_vars>>

\* one iteration of the loop over meta_data.row_groups(), in which the
\* accumulator updates named by fault return an error
RowGroupStep(fault) ==
    /\ pc = "loop"
    /\ rg < Len(row_groups)
    /\ LET row_group    == row_groups[rg + 1]
           rows         == NumRows(num_rows, row_group)
           column_stats == ColumnStats(row_group)
           has          == HasStatistics(has_statistics, row_group)
           accs         == MinMaxUpTo(max_values, min_values, table_schema,
                                      Len(table_schema), file_schema,
                                      column_stats, fault)
       IN  /\ num_rows' = rows
           /\ total_byte_size' = TotalByteSize(total_byte_size, row_group)
           /\ has_statistics' = has
           /\ null_counts' =
                 IF has
                 THEN [t \in 1..Len(null_counts) |->
                         NullCount(null_counts[t], table_schema, t, file_schema,
                                   column_stats, rows)]
                 ELSE null_counts
           /\ max_values' = IF has THEN accs.max_values ELSE max_values
           /\ min_values' = IF has THEN accs.min_values ELSE min_values
    /\ rg' = rg + 1
    /\ UNCHANGED <<table_schema, footer, file_schema, row_groups, pc, result>>
    /\ UNCHANGED <<schema_vars, reader_vars>>

\* an iteration in which every accumulator update succeeds
RowGroup == RowGroupStep({})

\* an iteration in which some accumulator update fails
RowGroupFault == \E fault \in Faults(Len(table_schema)) : RowGroupStep(fault)

\* after the loop: the Statistics value is assembled and returned
Finish ==
    /\ pc = "loop"
    /\ rg = Len(row_groups)
    /\ pc' = "done"
    /\ result' = Some(Ok(Statistics(num_rows, total_byte_size,
                    ColumnStatistics(has_statistics, table_schema, null_counts,
                                     max_values, min_values))))
    /\ UNCHANGED <<table_schema, footer, file_schema, row_groups, rg, num_rows,
                   total_byte_size, null_counts, has_statistics, max_values,
                   min_values>>
    /\ UNCHANGED <<schema_vars, reader_vars>>

\* no ChunkObjectReader is read from under Spec and SpecSchema
ReaderIdle ==
    /\ bytes_scanned = None
    /\ reads = <<>>
    /\ read_result = None

\* infer_schema is not running under Spec
SchemaIdle ==
    /\ readers = <<>>
    /\ s_pc = "idle"
    /\ s_next = 0
    /\ acc = <<>>
    /\ decoded = <<>>
    /\ s_result = None

\* the call's arguments, with the schemas drawn from pairs; the locals hold
\* nothing before Open
InitWith(pairs) ==
    /\ \E pair \in pairs :
        /\ table_schema = pair[1]
        /\ \/ /\ footer = "ok"
              /\ file_schema = pair[2]
              /\ row_groups \in UNION {[1..k -> RowGroups(pair[2])] : k \in 0..MaxRowGroups}
           \/ /\ footer = "corrupt"
              /\ file_schema = <<>>
              /\ row_groups = <<>>
    /\ pc = "start"
    /\ rg = 0
    /\ num_rows = 0
    /\ total_byte_size = 0
    /\ null_counts = <<>>
    /\ has_statistics = FALSE
    /\ max_values = <<>>
    /\ min_values = <<>>
    /\ result = None
    /\ SchemaIdle
    /\ ReaderIdle

Init == InitWith(Schemas)

\* the accumulators of the declared type take every value of that type:
\* no update fails
Next == OpenFails \/ Open \/ RowGroup \/ Finish

Spec == Init /\ [][Next]_vars

\* the same call with accumulators whose updates may return an error
NextFaults == OpenFails \/ Open \/ RowGroup \/ RowGroupFault \/ Finish

\* the schema pairs of those calls: the table or the file has one column
FaultSchemas == {pair \in Schemas : Len(pair[1]) = 1 \/ Len(pair[2]) = 1}

InitFaults == InitWith(FaultSchemas)

SpecFaults == InitFaults /\ [][NextFaults]_vars

(***************************************************************************)
(* infer_schema.                                                           *)
(***************************************************************************)
\* fetch_schema: the schema of the file behind the reader, or the decode
\* error
fetch_schema(reader) ==
    IF reader.footer = "ok" THEN Ok(reader.schema) ELSE Err("ParquetError")

\* arrow's Field::try_merge: the types must agree; the merged field is
\* nullable when either is
FieldCompatible(into, from) == into.data_type = from.data_type

FieldMerge(into, from) == [into EXCEPT !.nullable = into.nullable \/ from.nullable]

\* arrow's Schema::try_merge, one schema into the fields merged so far: a
\* field whose name is already there is merged into that field, any other is
\* pushed at the end
RECURSIVE MergeFields(_, _, _)
MergeFields(merged, fields, k) ==
    IF k > Len(fields) THEN Ok(merged)
    ELSE LET field == fields[k]
             same  == {m \in 1..Len(merged) : merged[m].name = field.name}
         IN  IF \E m \in same : ~FieldCompatible(merged[m], field)
             THEN Err("ArrowError")
             ELSE IF same = {}
             THEN MergeFields(Append(merged, field), fields, k + 1)
             ELSE MergeFields(
                    [m \in 1..Len(merged) |->
                        IF m \in same THEN FieldMerge(merged[m], field) ELSE merged[m]],
                    fields, k + 1)

\* Schema::try_merge(schemas): the schemas folded from Schema::empty()
RECURSIVE try_merge_from(_, _, _)
try_merge_from(merged, schemas, k) ==
    IF k > Len(schemas) THEN Ok(merged)
    ELSE LET r == MergeFields(merged, schemas[k], 1)
         IN  IF r.ok THEN try_merge_from(Unwrap(r.value), schemas, k + 1) ELSE r

try_merge(schemas) == try_merge_from(<<>>, schemas, 1)

\* FoldClosure with the next schema merged first and the accumulated one
\* into it
FoldClosure_NextFirst(merged, reader) ==
    LET next_schema == fetch_schema(reader)
    IN  IF ~next_schema.ok THEN next_schema
        ELSE try_merge(<<Unwrap(next_schema.value), merged>>)

\* FoldClosure that skips a file whose schema cannot be fetched
FoldClosure_SkipUnreadable(merged, reader) ==
    LET next_schema == fetch_schema(reader)
    IN  IF ~next_schema.ok THEN Ok(merged)
        ELSE try_merge(<<merged, Unwrap(next_schema.value)>>)

\* the closure of try_fold: the accumulated schema merged with the schema of
\* the next file, or the first error
FoldClosure(merged, reader) ==
    LET next_schema == fetch_schema(reader)
    IN  IF ~next_schema.ok THEN next_schema
        ELSE try_merge(<<merged, Unwrap(next_schema.value)>>)

\* the stream yields an error: try_fold stops with it
PollError ==
    /\ s_pc = "fold"
    /\ s_next < Len(readers)
    /\ readers[s_next + 1].item = "error"
    /\ s_pc' = "done"
    /\ s_result' = Some(Err("IoError"))
    /\ UNCHANGED <<readers, s_next, acc, decoded>>
    /\ UNCHANGED <<stat_vars, reader_vars>>

\* the stream yields a reader: the closure runs on it, and try_fold goes on
\* with its schema or stops with its error
Fold ==
    /\ s_pc = "fold"
    /\ s_next < Len(readers)
    /\ readers[s_next + 1].item = "reader"
    /\ decoded' = Append(decoded, s_next + 1)
    /\ LET r == FoldClosure(acc, readers[s_next + 1])
       IN  IF r.ok
           THEN /\ acc' = Unwrap(r.value)
                /\ s_next' = s_next + 1
                /\ UNCHANGED <<s_pc, s_result>>
           ELSE /\ s_pc' = "done"
                /\ s_result' = Some(r)
                /\ UNCHANGED <<acc, s_next>>
    /\ UNCHANGED readers
    /\ UNCHANGED <<stat_vars, reader_vars>>

\* the stream is exhausted: Ok(Arc::new(merged_schema))
SchemaDone ==
    /\ s_pc = "fold"
    /\ s_next = Len(readers)
    /\ s_pc' = "done"
    /\ s_result' = Some(Ok(acc))
    /\ UNCHANGED <<readers, s_next, acc, decoded>>
    /\ UNCHANGED <<stat_vars, reader_vars>>

\* fetch_statistics is not running under SpecSchema
StatIdle ==
    /\ table_schema = <<>>
    /\ footer = "idle"
    /\ file_schema = <<>>
    /\ row_groups = <<>>
    /\ pc = "idle"
    /\ rg = 0
    /\ num_rows = 0
    /\ total_byte_size = 0
    /\ null_counts = <<>>
    /\ has_statistics = FALSE
    /\ max_values = <<>>
    /\ min_values = <<>>
    /\ result = None

\* the stream argument; the fold starts from Schema::empty()
InitSchema ==
    /\ readers \in UNION {[1..k -> StreamItems] : k \in 0..MaxFiles}
    /\ s_pc = "fold"
    /\ s_next = 0
    /\ acc = <<>>
    /\ decoded = <<>>
    /\ s_result = None
    /\ StatIdle
    /\ ReaderIdle

NextSchema == PollError \/ Fold \/ SchemaDone

SpecSchema == InitSchema /\ [][NextSchema]_vars

(***************************************************************************)
(* Properties of fetch_statistics.                                         *)
(***************************************************************************)
\* fetch_statistics has returned Ok(statistics)
Returned == pc = "done" /\ IsSome(result) /\ Unwrap(result).ok

ReturnedStatistics == Unwrap(Unwrap(result).value)

HasColumnStatistics == Returned /\ IsSome(ReturnedStatistics.column_statistics)

ReturnedColumns == Unwrap(ReturnedStatistics.column_statistics)

TableFields == 1..Len(table_schema)

FileColumns == 1..Len(file_schema)

\* table field t and file column f have the same name
SameName(t, f) == table_schema[t].name = file_schema[f].name

\* table field t is absent from the file
Absent(t) == \A f \in FileColumns : ~SameName(t, f)

\* the statistics of file column f in row group k, an Option
Chunk(k, f) == row_groups[k].columns[f]

\* the column chunk carries statistics with min and max set
HasMinMax(k, f) == IsSome(Chunk(k, f)) /\ Unwrap(Chunk(k, f)).has_min_max_set

RECURSIVE SumUpTo(_, _)
SumUpTo(values, n) == IF n = 0 THEN 0 ELSE values[n] + SumUpTo(values, n - 1)

\* the sum of a sequence of numbers
Sum(values) == SumUpTo(values, Len(values))

\* the null counts the column chunks of file column f report, per row group
ReportedNulls(f) ==
    [k \in 1..Len(row_groups) |->
        IF IsSome(Chunk(k, f)) THEN Unwrap(Chunk(k, f)).null_count ELSE 0]

\* some column chunk of the file carries statistics
SomeStatistics ==
    \E k \in 1..Len(row_groups) : \E f \in FileColumns : IsSome(Chunk(k, f))

\* the value of an accumulator slot as get_col_stats reports it
Evaluated(slot) == IF IsSome(slot) THEN Unwrap(slot) ELSE None

\* C1: whenever fetch_statistics succeeds with column_statistics present,
\* column_statistics has one entry per field of the table schema, and entry
\* i holds null_counts[i] and the values of the max and min accumulators of
\* table field i, whatever the position of that field in the file.
C1_ColumnStatisticsAligned ==
    HasColumnStatistics =>
        /\ Len(ReturnedColumns) = Len(table_schema)
        /\ \A i \in TableFields :
            /\ ReturnedColumns[i].null_count = Some(null_counts[i])
            /\ ReturnedColumns[i].max_value = Evaluated(max_values[i])
            /\ ReturnedColumns[i].min_value = Evaluated(min_values[i])

\* C1 witness: a result for a two-field table whose fields lie at other
\* positions in the file, with different null counts and a max for each
C1_Witness ==
    /\ HasColumnStatistics
    /\ Len(table_schema) = 2
    /\ \A i \in TableFields : \E f \in FileColumns : SameName(i, f) /\ f # i
    /\ ReturnedColumns[1].null_count # ReturnedColumns[2].null_count
    /\ \A i \in TableFields : IsSome(ReturnedColumns[i].max_value)

\* C2 (as claimed): the null count reported for a table column that is
\* absent from the file equals the reported num_rows, provided the file has
\* statistics on some column, for any number of row groups.
C2_MissingColumnIsNull ==
    (HasColumnStatistics /\ SomeStatistics) =>
        \A t \in TableFields :
            Absent(t) => ReturnedColumns[t].null_count = ReturnedStatistics.num_rows

\* C3 (as claimed): a reported max (min) of a table column present in the
\* file bounds the column in every row group: every row group reports a max
\* (min) for the column and none exceeds (is below) the reported one.
C3_SafeSuperset ==
    HasColumnStatistics =>
        \A t \in TableFields : \A f \in FileColumns : SameName(t, f) =>
            /\ IsSome(ReturnedColumns[t].max_value) =>
                 \A k \in 1..Len(row_groups) :
                    /\ HasMinMax(k, f)
                    /\ Unwrap(Chunk(k, f)).max <= Unwrap(ReturnedColumns[t].max_value)
            /\ IsSome(ReturnedColumns[t].min_value) =>
                 \A k \in 1..Len(row_groups) :
                    /\ HasMinMax(k, f)
                    /\ Unwrap(Chunk(k, f)).min >= Unwrap(ReturnedColumns[t].min_value)

NumericTypes == {"Int32", "Int64", "Float32", "Float64"}

\* the declared type of table field t is numeric and is the type the
\* statistics of file column f are encoded in
NumericMatch(t, f) ==
    /\ SameName(t, f)
    /\ table_schema[t].data_type \in NumericTypes
    /\ file_schema[f].kind \in DOMAIN TypeOfStatistics
    /\ TypeOfStatistics[file_schema[f].kind] = table_schema[t].data_type

\* C4: for a numeric table column whose declared type is the encoded type,
\* the final max is at least every max and the final min at most every min
\* that a row group reported with min/max set, when no update failed.
C4_AccumulatorMonotone ==
    HasColumnStatistics =>
        \A t \in TableFields : \A f \in FileColumns : NumericMatch(t, f) =>
            \A k \in 1..Len(row_groups) : HasMinMax(k, f) =>
                /\ IsSome(ReturnedColumns[t].max_value)
                /\ IsSome(ReturnedColumns[t].min_value)
                /\ Unwrap(ReturnedColumns[t].max_value) >= Unwrap(Chunk(k, f)).max
                /\ Unwrap(ReturnedColumns[t].min_value) <= Unwrap(Chunk(k, f)).min

\* C4 witness: two row groups report different bounds, the larger ones
\* first, and the result spans both
C4_Witness ==
    /\ HasColumnStatistics
    /\ Len(row_groups) = 2
    /\ \E t \in TableFields : \E f \in FileColumns :
        /\ NumericMatch(t, f)
        /\ HasMinMax(1, f) /\ HasMinMax(2, f)
        /\ Unwrap(Chunk(1, f)).max > Unwrap(Chunk(2, f)).max
        /\ ReturnedColumns[t].max_value = Some(Unwrap(Chunk(1, f)).max)
        /\ ReturnedColumns[t].min_value = Some(Unwrap(Chunk(2, f)).min)

\* the loop of fetch_statistics processes row group rg + 1 in this step
RowGroupProcessed == pc = "loop" /\ rg' = rg + 1

\* the statistics of file column f are encoded in a type other than the
\* declared type of table field t
Mismatch(t, f) ==
    /\ SameName(t, f)
    /\ ~(/\ file_schema[f].kind \in DOMAIN TypeOfStatistics
         /\ TypeOfStatistics[file_schema[f].kind] = table_schema[t].data_type)

\* the step neither returns nor raises an error
NoError == pc' = "loop" /\ result' = None

\* C5 (as claimed): a row group whose statistics for a column are encoded
\* in a type other than the declared one leaves the column's null count and
\* both of its accumulators unchanged, and raises no error.
C5_MismatchLeavesAllUnchanged ==
    [][RowGroupProcessed =>
        \A t \in TableFields : \A f \in FileColumns :
            (Mismatch(t, f) /\ IsSome(Chunk(rg + 1, f))) =>
                /\ null_counts'[t] = null_counts[t]
                /\ max_values'[t] = max_values[t]
                /\ min_values'[t] = min_values[t]
                /\ NoError]_vars

\* C5 (amended): such a row group leaves both accumulators of the column
\* unchanged and raises no error; the column's null count grows by the null
\* count the statistics report.
C5_MismatchLeavesAccumulators ==
    [][RowGroupProcessed =>
        \A t \in TableFields : \A f \in FileColumns :
            (Mismatch(t, f) /\ IsSome(Chunk(rg + 1, f))) =>
                /\ null_counts'[t] = null_counts[t] + Unwrap(Chunk(rg + 1, f)).null_count
                /\ max_values'[t] = max_values[t]
                /\ min_values'[t] = min_values[t]
                /\ NoError]_vars

\* C5 witness: the loop has just processed a row group whose statistics for
\* a column of another declared type carry a null and min/max; the null is
\* counted and both accumulators are still unfed
C5_Witness ==
    /\ pc = "loop"
    /\ rg >= 1
    /\ result = None
    /\ \E t \in TableFields : \E f \in FileColumns :
        /\ Mismatch(t, f)
        /\ file_schema[f].kind \in DOMAIN TypeOfStatistics
        /\ HasMinMax(rg, f)
        /\ Unwrap(Chunk(rg, f)).null_count = 1
        /\ null_counts[t] >= 1
        /\ max_values[t] = Some(None)
        /\ min_values[t] = Some(None)

\* C6: the null count reported for a table column present in the file is
\* the sum of the null counts of the column's chunks that carry statistics.
C6_NullCountIsSum ==
    HasColumnStatistics =>
        \A t \in TableFields : \A f \in FileColumns : SameName(t, f) =>
            ReturnedColumns[t].null_count = Some(Sum(ReportedNulls(f)))

\* C6 witness: a column at another position in the file than in the table,
\* one null reported in each of two row groups, two nulls in the result
C6_Witness ==
    /\ HasColumnStatistics
    /\ Len(row_groups) = 2
    /\ \E t \in TableFields : \E f \in FileColumns :
        /\ SameName(t, f)
        /\ f # t
        /\ ReportedNulls(f) = <<1, 1>>
        /\ ReturnedColumns[t].null_count = Some(2)

\* C7: column_statistics is None exactly when no column chunk of any row
\* group carries statistics; num_rows and total_byte_size are Some in both
\* cases.
C7_NoStatisticsNoColumns ==
    Returned =>
        /\ (ReturnedStatistics.column_statistics = None) <=> ~SomeStatistics
        /\ IsSome(ReturnedStatistics.num_rows)
        /\ IsSome(ReturnedStatistics.total_byte_size)

\* C7 witness: a file of two row groups without any statistics gives no
\* column_statistics and its row and byte counts
C7_Witness ==
    /\ Returned
    /\ Len(row_groups) = 2
    /\ ~SomeStatistics
    /\ ReturnedStatistics.column_statistics = None
    /\ Unwrap(ReturnedStatistics.num_rows) > 0
    /\ Unwrap(ReturnedStatistics.total_byte_size) > 0

\* C8: every successful result has num_rows = Some(sum of the row counts of
\* the row groups), total_byte_size = Some(sum of their byte sizes) and
\* is_exact = true.
C8_RowAndByteTotals ==
    Returned =>
        /\ ReturnedStatistics.num_rows =
              Some(Sum([k \in 1..Len(row_groups) |-> row_groups[k].num_rows]))
        /\ ReturnedStatistics.total_byte_size =
              Some(Sum([k \in 1..Len(row_groups) |-> row_groups[k].total_byte_size]))
        /\ ReturnedStatistics.is_exact

\* C8 witness: two row groups of different sizes, only the first of which
\* carries statistics, and a table field the file lacks
C8_Witness ==
    /\ Returned
    /\ Len(row_groups) = 2
    /\ row_groups[1].num_rows # row_groups[2].num_rows
    /\ \E f \in FileColumns : IsSome(Chunk(1, f))
    /\ \A f \in FileColumns : ~IsSome(Chunk(2, f))
    /\ \E t \in TableFields : Absent(t)
    /\ ReturnedStatistics.num_rows = Some(5)
    /\ ReturnedStatistics.total_byte_size = Some(12)

(***************************************************************************)
(* Properties of infer_schema.                                             *)
(***************************************************************************)
\* the names of the fields of a schema, in order
Names(schema) == [m \in 1..Len(schema) |-> schema[m].name]

Range(names) == {names[m] : m \in 1..Len(names)}

\* a sequence of names followed by those names of more it does not hold yet
RECURSIVE AppendNew(_, _, _)
AppendNew(names, more, k) ==
    IF k > Len(more) THEN names
    ELSE IF more[k] \in Range(names) THEN AppendNew(names, more, k + 1)
    ELSE AppendNew(Append(names, more[k]), more, k + 1)

\* the field names of the first n files of the stream in first-seen order
RECURSIVE FirstSeen(_)
FirstSeen(n) ==
    IF n = 0 THEN <<>>
    ELSE AppendNew(FirstSeen(n - 1), Names(readers[n].schema), 1)

\* infer_schema has returned
SchemaReturned == s_pc = "done" /\ IsSome(s_result)

SchemaOk == SchemaReturned /\ Unwrap(s_result).ok

SchemaErr == SchemaReturned /\ ~Unwrap(s_result).ok

\* C9: the fold runs in stream order from the empty schema, so the fields of
\* the merged schema are in first-seen order over the files merged so far,
\* and those of the returned schema over the whole stream; a file only
\* appends fields behind the existing ones.
C9_FirstSeenOrder ==
    /\ s_pc = "fold" => Names(acc) = FirstSeen(s_next)
    /\ SchemaOk => Names(Unwrap(Unwrap(s_result).value)) = FirstSeen(Len(readers))

\* C9 witness: [A,B] then [B,C] have been merged into [A,B,C]
C9_Witness ==
    /\ SchemaOk
    /\ Len(readers) = 2
    /\ Names(readers[1].schema) = <<"A", "B">>
    /\ Names(readers[2].schema) = <<"B", "C">>
    /\ Names(Unwrap(Unwrap(s_result).value)) = <<"A", "B", "C">>

\* file i declares a field with another type than an earlier file does
Incompatible(i) ==
    \E j \in 1..(i - 1) :
        \E m \in 1..Len(readers[j].schema) : \E n \in 1..Len(readers[i].schema) :
            /\ readers[j].schema[m].name = readers[i].schema[n].name
            /\ readers[j].schema[m].data_type # readers[i].schema[n].data_type

\* item i of the stream fails the inference: it is an error of the stream,
\* its file does not decode, or its schema does not merge
Failing(i) ==
    \/ readers[i].item = "error"
    \/ readers[i].footer = "corrupt"
    \/ Incompatible(i)

\* the items 1..n in stream order
FirstItems(n) == [i \in 1..n |-> i]

\* C10: infer_schema returns an error and no schema at the first item of
\* the stream that is a read error, does not decode or does not merge; the
\* items behind it are never decoded or merged; it returns a schema only
\* when every item was decoded and merged.
C10_FirstErrorAborts ==
    /\ s_pc = "fold" =>
         /\ \A i \in 1..s_next : ~Failing(i)
         /\ decoded = FirstItems(s_next)
         /\ s_result = None
    /\ SchemaErr =>
         /\ s_next < Len(readers)
         /\ Failing(s_next + 1)
         /\ \A i \in 1..s_next : ~Failing(i)
         /\ Unwrap(s_result).value = None
         /\ decoded = FirstItems(IF readers[s_next + 1].item = "reader"
                                 THEN s_next + 1 ELSE s_next)
    /\ SchemaOk =>
         /\ \A i \in 1..Len(readers) : ~Failing(i)
         /\ decoded = FirstItems(Len(readers))

\* C10 witness: the second of three files does not merge; the call returns
\* an error after decoding two files
C10_Witness ==
    /\ SchemaErr
    /\ Len(readers) = 3
    /\ \A i \in 1..3 : readers[i].footer = "ok"
    /\ Incompatible(2)
    /\ decoded = <<1, 2>>
    /\ Unwrap(s_result).value = None

(***************************************************************************)
(* Further properties of fetch_statistics.                                 *)
(***************************************************************************)
\* some row group of the file carries no statistics at all
SomeBareRowGroup ==
    \E k \in 1..Len(row_groups) : \A f \in FileColumns : ~IsSome(Chunk(k, f))

\* C11: fetch_statistics returns an error exactly when the file does not
\* decode, and then no Statistics value; once the file is decoded the call
\* never ends in an error, whatever columns are absent, whatever row groups
\* lack statistics, whatever types differ and whatever updates fail.
C11_OnlyDecodeFails ==
    /\ IsSome(result) => pc = "done"
    /\ pc = "done" =>
        /\ IsSome(result)
        /\ Unwrap(result).ok <=> footer = "ok"
        /\ Unwrap(result).ok <=> IsSome(Unwrap(result).value)
        /\ ~Unwrap(result).ok <=> IsSome(Unwrap(result).error)

\* C11 witness: Ok is returned for a file with a row group without
\* statistics, for a table with a field the file lacks, after an update of
\* an accumulator has failed
C11_Witness ==
    /\ Returned
    /\ SomeBareRowGroup
    /\ \E t \in TableFields : Absent(t)
    /\ \E t \in TableFields : max_values[t] = None

\* an accumulator slot that holds no accumulator
Disabled(slot) == slot = None

\* C13: once the max or the min accumulator of a column is None it stays
\* None in every later row group of the call, and the row groups processed
\* after that complete: the loop goes on and the call returns Ok.
C13_DisabledStaysDisabled ==
    [][pc = "loop" =>
        \A t \in TableFields :
            /\ Disabled(max_values[t]) => Disabled(max_values'[t])
            /\ Disabled(min_values[t]) => Disabled(min_values'[t])
            /\ (Disabled(max_values[t]) \/ Disabled(min_values[t])) =>
                  \/ RowGroupProcessed /\ NoError
                  \/ pc' = "done" /\ IsSome(result') /\ Unwrap(result').ok]_vars

\* C13 witness: two row groups report min and max for a column of the
\* declared type; the max accumulator is None after both and the min
\* accumulator has been fed from both
C13_Witness ==
    /\ pc = "loop"
    /\ rg = 2
    /\ \E t \in TableFields : \E f \in FileColumns :
        /\ NumericMatch(t, f)
        /\ HasMinMax(1, f) /\ HasMinMax(2, f)
        /\ Unwrap(Chunk(1, f)).min > Unwrap(Chunk(2, f)).min
        /\ Disabled(max_values[t])
        /\ min_values[t] = Some(Some(Unwrap(Chunk(2, f)).min))

\* the state of an accumulator slot: no accumulator, an accumulator never
\* fed, or an accumulator that has been fed
AccumulatorState(slot) ==
    IF slot = None THEN "disabled"
    ELSE IF Unwrap(slot) = None THEN "untouched"
    ELSE "tracking"

\* C14 (as claimed): across the row groups of a file the state of each
\* accumulator changes only from untouched to tracking and from tracking to
\* disabled; never backward and never from untouched to disabled.
C14_OnlyThroughTracking ==
    [][pc = "loop" =>
        \A t \in TableFields :
            \A slots \in {<<max_values[t], max_values'[t]>>,
                          <<min_values[t], min_values'[t]>>} :
                LET from == AccumulatorState(slots[1])
                    to   == AccumulatorState(slots[2])
                IN  \/ from = to
                    \/ from = "untouched" /\ to = "tracking"
                    \/ from = "tracking" /\ to = "disabled"]_vars

\* C14 (amended): the state changes only from untouched to tracking, from
\* untouched to disabled and from tracking to disabled; never backward.
C14_NeverBackward ==
    [][pc = "loop" =>
        \A t \in TableFields :
            \A slots \in {<<max_values[t], max_values'[t]>>,
                          <<min_values[t], min_values'[t]>>} :
                LET from == AccumulatorState(slots[1])
                    to   == AccumulatorState(slots[2])
                IN  \/ from = to
                    \/ from = "untouched" /\ to = "tracking"
                    \/ from = "untouched" /\ to = "disabled"
                    \/ from = "tracking" /\ to = "disabled"]_vars

\* C14 witness: after the first row group, which reports min and max for a
\* column of the declared type, the max accumulator is disabled and the min
\* accumulator is tracking
C14_Witness ==
    /\ pc = "loop"
    /\ rg = 1
    /\ \E t \in TableFields : \E f \in FileColumns :
        /\ NumericMatch(t, f)
        /\ HasMinMax(1, f)
        /\ AccumulatorState(max_values[t]) = "disabled"
        /\ AccumulatorState(min_values[t]) = "tracking"

\* C15 (as claimed): a row group processed while has_statistics holds, set
\* by this row group or by an earlier one, increases the null count of each
\* table column absent from the file by exactly its own row count.
C15_AbsentAddsOwnRows ==
    [][(RowGroupProcessed /\ has_statistics') =>
        \A t \in TableFields :
            Absent(t) =>
                null_counts'[t] = null_counts[t] + row_groups[rg + 1].num_rows]_vars

\* has_statistics, once true, is true after every later row group
StaysSet == has_statistics => has_statistics'

\* a row group without a statistics entry for the file column of table
\* field t leaves the field's null count and accumulators as they were
NoEntryNoChange ==
    \A t \in TableFields : \A f \in FileColumns :
        (SameName(t, f) /\ ~IsSome(Chunk(rg + 1, f))) =>
            /\ null_counts'[t] = null_counts[t]
            /\ max_values'[t] = max_values[t]
            /\ min_values'[t] = min_values[t]

\* a row group counts a table column absent from the file as null in each
\* of its rows
AbsentFullyNull ==
    \A t \in TableFields :
        Absent(t) => null_counts'[t] - null_counts[t] = row_groups[rg + 1].num_rows

\* C16 (as claimed): has_statistics is sticky; a row group processed while
\* it holds leaves unchanged the null count and both accumulators of a table
\* column whose file column has no statistics entry in that row group, and
\* counts a column absent from the file as fully null.
C16_StickyFrameAndAbsent ==
    [][RowGroupProcessed =>
        /\ StaysSet
        /\ has_statistics' => (NoEntryNoChange /\ AbsentFullyNull)]_vars

\* the parts of C16 on the flag and on columns without a statistics entry
StickyAndFrame ==
    [][RowGroupProcessed =>
        /\ StaysSet
        /\ has_statistics' => NoEntryNoChange]_vars

(***************************************************************************)
(* ChunkObjectReader::get_read.                                            *)
(***************************************************************************)
\* metrics::Count::add
Count_add(value, n) == value + n

\* if let Some(m) = self.bytes_scanned.as_ref() { m.add(length) }
BytesScanned(sink, length) ==
    IF IsSome(sink) THEN Some(Count_add(Unwrap(sink), length)) ELSE sink

\* the value of sync_chunk_reader with its error mapped to a ParquetError
ReadResult(start, length, outcome) ==
    IF outcome = "ok" THEN Ok(<<start, length>>) ELSE Err("ParquetError::ArrowError")

\* one call of get_read(start, length)
GetRead ==
    /\ Len(reads) < MaxReads
    /\ \E start \in Offsets, length \in Lengths, outcome \in ReadOutcomes :
        /\ bytes_scanned' = BytesScanned(bytes_scanned, length)
        /\ read_result' = Some(ReadResult(start, length, outcome))
        /\ reads' = Append(reads, [start |-> start, length |-> length,
                                   outcome |-> outcome])
    /\ UNCHANGED <<stat_vars, schema_vars>>

\* a ChunkObjectReader with or without a counter, which starts at 0
InitReader ==
    /\ bytes_scanned \in {None, Some(0)}
    /\ reads = <<>>
    /\ read_result = None
    /\ StatIdle
    /\ SchemaIdle

NextReader == GetRead

SpecReader == InitReader /\ [][NextReader]_vars

(***************************************************************************)
(* Properties of ChunkObjectReader::get_read.                              *)
(***************************************************************************)
\* the lengths asked for by the calls that succeeded, 0 for the others
SucceededLengths ==
    [k \in 1..Len(reads) |->
        IF reads[k].outcome = "ok" THEN reads[k].length ELSE 0]

\* C12 (as claimed): with a counter attached, the counter has grown by the
\* sum of the lengths of the range reads that succeeded; a get_read whose
\* underlying reader fails returns an error and adds nothing.
C12_CountsSuccessfulReads ==
    /\ IsSome(bytes_scanned) => Unwrap(bytes_scanned) = Sum(SucceededLengths)
    /\ (Len(reads) > 0 /\ reads[Len(reads)].outcome = "error") =>
          /\ IsSome(read_result)
          /\ ~Unwrap(read_result).ok

====
